---- MODULE Spec2Model ----
(***************************************************************************)
(* A model of lab1/calc_m1.py: tokenize, TokenStream and the recursive-    *)
(* descent evaluator behind calculate_expression.                          *)
(*                                                                         *)
(* A string is a sequence of one-character strings.  Indices i and pos are *)
(* Python's (0-based).  A number is a record [k, n, d]: k is the Python    *)
(* type ("int", "float", "complex"), n/d the value as a fraction in lowest *)
(* terms (d = 1 for an int).  Float arithmetic is carried out on the exact *)
(* fraction (rounding is not modelled); d = 0 marks a value the fraction   *)
(* arithmetic does not track (an irrational or complex power).             *)
(***************************************************************************)
EXTENDS Integers, Sequences, FiniteSets, TLC

\* ------------------------------------------------------------ bounds
MaxToks == 4

MaxLen == 4

MaxInt == 3

\* ------------------------------------------------------------ numbers
Abs(x) == IF x < 0 THEN -x ELSE x

RECURSIVE GCD(_, _)
GCD(a, b) == IF b = 0 THEN a ELSE GCD(b, a % b)

RECURSIVE IntPow(_, _)
IntPow(x, e) == IF e = 0 THEN 1 ELSE x * IntPow(x, e - 1)

IntVal(n) == [k |-> "int", n |-> n, d |-> 1]

\* The float n/d, in lowest terms with a positive denominator.
FloatVal(n, d) ==
    LET g == GCD(Abs(n), Abs(d))
        s == IF d < 0 THEN -1 ELSE 1
    IN  [k |-> "float", n |-> s * (n \div g), d |-> s * (d \div g)]

Untracked(kind) == [k |-> kind, n |-> 0, d |-> 0]

IsInt(v) == v.k = "int"

Tracked(v) == v.d # 0

\* Python's numeric promotion: int < float < complex.
Promote(a, b) ==
    IF a.k = "complex" \/ b.k = "complex" THEN "complex"
    ELSE IF a.k = "float" \/ b.k = "float" THEN "float"
    ELSE "int"

\* b == 0  (Python compares int and float by value: 0.0 == 0)
IsZero(v) == Tracked(v) /\ v.n = 0

PyAdd(a, b) ==
    IF ~(Tracked(a) /\ Tracked(b)) THEN Untracked(Promote(a, b))
    ELSE IF Promote(a, b) = "int" THEN IntVal(a.n + b.n)
    ELSE FloatVal(a.n * b.d + b.n * a.d, a.d * b.d)

PyNeg(a) == [a EXCEPT !.n = -a.n]

PyPos(a) == a

PySub(a, b) == PyAdd(a, PyNeg(b))

PyMul(a, b) ==
    IF ~(Tracked(a) /\ Tracked(b)) THEN Untracked(Promote(a, b))
    ELSE IF Promote(a, b) = "int" THEN IntVal(a.n * b.n)
    ELSE FloatVal(a.n * b.n, a.d * b.d)

\* a / b for b # 0: always a float (complex for a complex operand)
PyTrueDiv(a, b) ==
    IF ~(Tracked(a) /\ Tracked(b)) THEN Untracked(Promote(a, FloatVal(1, 1)))
    ELSE FloatVal(a.n * b.d, a.d * b.n)

\* PyFloorDiv with the quotient rounded toward zero, as C's integer division
PyFloorDivTruncating(a, b) ==
    (IF (a < 0) = (b < 0) THEN 1 ELSE -1) * (Abs(a) \div Abs(b))

\* int // int for b # 0: the quotient rounded toward negative infinity
PyFloorDiv(a, b) ==
    IF b > 0 THEN a \div b ELSE (-a) \div (-b)

\* int % int for b # 0: the remainder, with the sign of b
PyMod(a, b) ==
    IF b > 0 THEN a % b ELSE -((-a) % (-b))

\* PyPow with the result kind promoted as for *: two ints always give an int
PyPowPromoted(a, b) ==
    IF ~(Tracked(a) /\ Tracked(b))
    THEN [ok |-> TRUE, val |-> Untracked(Promote(a, b))]
    ELSE IF a.n = 0 /\ b.n < 0
    THEN [ok |-> FALSE, exc |-> "ZeroDivisionError"]
    ELSE IF b.d = 1 /\ b.n >= 0
    THEN [ok |-> TRUE,
          val |-> IF Promote(a, b) = "int" THEN IntVal(IntPow(a.n, b.n))
                  ELSE FloatVal(IntPow(a.n, b.n), IntPow(a.d, b.n))]
    ELSE IF b.d = 1 /\ Promote(a, b) = "int"
    THEN [ok |-> TRUE, val |-> IntVal(PyFloorDivTruncating(1, IntPow(a.n, -b.n)))]
    ELSE IF b.d = 1
    THEN [ok |-> TRUE, val |-> FloatVal(IntPow(a.d, -b.n), IntPow(a.n, -b.n))]
    ELSE [ok |-> TRUE, val |-> Untracked("float")]

\* left ** right.  [ok |-> TRUE, val] or [ok |-> FALSE, exc]: Python raises
\* ZeroDivisionError for a zero base and a negative exponent.
PyPow(a, b) ==
    IF ~(Tracked(a) /\ Tracked(b))
    THEN [ok |-> TRUE, val |-> Untracked(Promote(a, b))]
    ELSE IF a.n = 0 /\ b.n < 0
    THEN [ok |-> FALSE, exc |-> "ZeroDivisionError"]
    ELSE IF b.d = 1 /\ b.n >= 0
    THEN [ok |-> TRUE,
          val |-> IF Promote(a, b) = "int" THEN IntVal(IntPow(a.n, b.n))
                  ELSE FloatVal(IntPow(a.n, b.n), IntPow(a.d, b.n))]
    ELSE IF b.d = 1
    THEN [ok |-> TRUE, val |-> FloatVal(IntPow(a.d, -b.n), IntPow(a.n, -b.n))]
    ELSE IF a.n = 0
    THEN [ok |-> TRUE, val |-> FloatVal(0, 1)]
    ELSE IF a.n < 0
    THEN [ok |-> TRUE, val |-> Untracked("complex")]
    ELSE IF a.n = a.d
    THEN [ok |-> TRUE, val |-> FloatVal(1, 1)]
    ELSE [ok |-> TRUE, val |-> Untracked("float")]

\* ------------------------------------------------------------ tokenize
Digits == <<"0", "1", "2", "3", "4", "5", "6", "7", "8", "9">>

IsDigit(ch) == \E j \in 1..10 : Digits[j] = ch

IsSpace(ch) == ch \in {" ", "\t", "\n"}

DigitVal(ch) == (CHOOSE j \in 1..10 : Digits[j] = ch) - 1

\* expression[i]
CharAt(e, i) == e[i + 1]

\* expression[start:stop]
Slice(e, start, stop) == SubSeq(e, start + 1, stop)

\* while i < n and expression[i].isdigit(): i += 1
RECURSIVE SkipDigits(_, _)
SkipDigits(e, i) ==
    IF i < Len(e) /\ IsDigit(CharAt(e, i)) THEN SkipDigits(e, i + 1) ELSE i

\* the value of a run of decimal digits
RECURSIVE DigitsValue(_)
DigitsValue(s) ==
    IF s = <<>> THEN 0
    ELSE 10 * DigitsValue(SubSeq(s, 1, Len(s) - 1)) + DigitVal(s[Len(s)])

\* int(num_str)
ParseInt(s) == IntVal(DigitsValue(s))

\* float(num_str), num_str = digits "." digits with the point at index dot
ParseFloat(s, dot) ==
    FloatVal(DigitsValue(Slice(s, 0, dot) \o Slice(s, dot + 1, Len(s))),
             IntPow(10, Len(s) - dot - 1))

NumTok(v) == [kind |-> "NUM", val |-> v]

OpTok(sym) == [kind |-> "OP", val |-> sym]

LParenTok == [kind |-> "LPAREN", val |-> "("]

RParenTok == [kind |-> "RPAREN", val |-> ")"]

EOFTok == [kind |-> "EOF", val |-> "None"]

TokErr(msg, at) == [ok |-> FALSE, tokens |-> <<>>, exc |-> "ParseError", msg |-> msg, at |-> at]

\* NoDigitAfterPoint without the isdigit test: only the end of the text counts
NoDigitAfterPointAtEndOnly(e, j) == j + 1 >= Len(e)

\* if i + 1 >= n or not expression[i + 1].isdigit(), for the point at index j
NoDigitAfterPoint(e, j) == j + 1 >= Len(e) \/ ~IsDigit(CharAt(e, j + 1))

\* The scanning loop of tokenize, from index i with the tokens found so far.
RECURSIVE TokenizeFrom(_, _, _)
TokenizeFrom(e, i, toks) ==
    IF i >= Len(e)
    THEN [ok |-> TRUE, tokens |-> Append(toks, EOFTok), exc |-> "", msg |-> "", at |-> i]
    ELSE LET ch == CharAt(e, i) IN
    IF IsSpace(ch) THEN TokenizeFrom(e, i + 1, toks)
    ELSE IF IsDigit(ch)
    THEN LET j == SkipDigits(e, i) IN
         IF j < Len(e) /\ CharAt(e, j) = "."
         THEN IF NoDigitAfterPoint(e, j)
              THEN TokErr("digit expected after point", j)
              ELSE LET m == SkipDigits(e, j + 1) IN
                   TokenizeFrom(e, m, Append(toks, NumTok(ParseFloat(Slice(e, i, m), j - i))))
         ELSE TokenizeFrom(e, j, Append(toks, NumTok(ParseInt(Slice(e, i, j)))))
    ELSE IF ch = "(" THEN TokenizeFrom(e, i + 1, Append(toks, LParenTok))
    ELSE IF ch = ")" THEN TokenizeFrom(e, i + 1, Append(toks, RParenTok))
    ELSE IF ch = "*"
    THEN IF i + 1 < Len(e) /\ CharAt(e, i + 1) = "*"
         THEN TokenizeFrom(e, i + 2, Append(toks, OpTok("**")))
         ELSE TokenizeFrom(e, i + 1, Append(toks, OpTok("*")))
    ELSE IF ch = "/"
    THEN IF i + 1 < Len(e) /\ CharAt(e, i + 1) = "/"
         THEN TokenizeFrom(e, i + 2, Append(toks, OpTok("//")))
         ELSE TokenizeFrom(e, i + 1, Append(toks, OpTok("/")))
    ELSE IF ch \in {"+", "-", "%"}
    THEN TokenizeFrom(e, i + 1, Append(toks, OpTok(ch)))
    ELSE TokErr("invalid character", i)

tokenize(e) == TokenizeFrom(e, 0, <<>>)

\* ------------------------------------------------------------ state
VARIABLES
    expression,  \* the argument of calculate_expression
    phase,       \* calculate_expression: "start", "parse", "returned", "raised"
    tokens,      \* ts.tokens
    pos,         \* ts.pos
    stack,       \* the parse_* calls in progress, the innermost last
    ret,         \* the value the last parse_* call returned
    outcome      \* what calculate_expression returned or raised

vars == <<expression, phase, tokens, pos, stack, ret, outcome>>

NoVal == [k |-> "none", n |-> 0, d |-> 0]

NoOutcome == [kind |-> "none", msg |-> "", val |-> NoVal]

Frame(fn) == [fn |-> fn, pc |-> "start", val |-> NoVal, op |-> ""]

Top == stack[Len(stack)]

Rest == SubSeq(stack, 1, Len(stack) - 1)

Running(fn, pc) ==
    /\ phase = "parse"
    /\ stack # <<>>
    /\ Top.fn = fn
    /\ Top.pc = pc

\* TokenStream.peek
peek == IF pos < Len(tokens) THEN tokens[pos + 1] ELSE EOFTok

\* eat advancing the cursor on a mismatch too
EatAlwaysAdvancing(kind, value) ==
    LET tok == peek IN
    IF tok.kind # kind
    THEN [ok |-> FALSE, pos |-> pos + 1, msg |-> "expected token kind"]
    ELSE IF value # "None" /\ tok.val # value
    THEN [ok |-> FALSE, pos |-> pos + 1, msg |-> "expected token value"]
    ELSE [ok |-> TRUE, pos |-> pos + 1, msg |-> ""]

\* TokenStream.eat(kind, value); value "None" when none is given
eat(kind, value) ==
    LET tok == peek IN
    IF tok.kind # kind
    THEN [ok |-> FALSE, pos |-> pos, msg |-> "expected token kind"]
    ELSE IF value # "None" /\ tok.val # value
    THEN [ok |-> FALSE, pos |-> pos, msg |-> "expected token value"]
    ELSE [ok |-> TRUE, pos |-> pos + 1, msg |-> ""]

IsOp(tok, syms) == tok.kind = "OP" /\ tok.val \in syms

\* An exception leaves calculate_expression: every frame is unwound.
Raise(exc, msg) ==
    /\ outcome' = [kind |-> exc, msg |-> msg, val |-> NoVal]
    /\ phase' = "raised"
    /\ stack' = <<>>

\* ts.eat(kind, value), then the caller goes on with stack newStack and ret newRet
EatThen(kind, value, newStack, newRet) ==
    LET r == eat(kind, value) IN
    /\ pos' = r.pos
    /\ IF r.ok
       THEN /\ stack' = newStack
            /\ ret' = newRet
            /\ UNCHANGED <<phase, outcome>>
       ELSE /\ Raise("ParseError", r.msg)
            /\ UNCHANGED ret

\* return v from the innermost call
Return(v) ==
    /\ stack' = Rest
    /\ ret' = v
    /\ UNCHANGED <<expression, phase, tokens, pos, outcome>>

\* the innermost call moves to pc and calls fn
Call(pc, fn) ==
    /\ stack' = Append(Append(Rest, [Top EXCEPT !.pc = pc]), Frame(fn))
    /\ ret' = NoVal
    /\ UNCHANGED <<expression, phase, tokens, pos, outcome>>

\* ------------------------------------------------------------ calculate_expression
\* tokens = tokenize(expression); ts = TokenStream(tokens); parse_expr(ts)
CalcTokenize ==
    /\ phase = "start"
    /\ LET r == tokenize(expression) IN
       IF r.ok
       THEN /\ tokens' = r.tokens
            /\ pos' = 0
            /\ phase' = "parse"
            /\ stack' = <<Frame("parse_expr")>>
            /\ UNCHANGED <<outcome>>
       ELSE /\ Raise(r.exc, r.msg)
            /\ UNCHANGED <<tokens, pos>>
    /\ UNCHANGED <<expression, ret>>

\* CalcFinish without the check that the cursor is on EOF
CalcFinishUnchecked ==
    /\ phase = "parse"
    /\ stack = <<>>
    /\ outcome' = [kind |-> "value", msg |-> "", val |-> ret]
    /\ phase' = "returned"
    /\ UNCHANGED <<expression, tokens, pos, ret, stack>>

\* if ts.peek()[0] != 'EOF': raise ParseError; return result
CalcFinish ==
    /\ phase = "parse"
    /\ stack = <<>>
    /\ IF peek.kind # "EOF"
       THEN /\ Raise("ParseError", "trailing characters")
       ELSE /\ outcome' = [kind |-> "value", msg |-> "", val |-> ret]
            /\ phase' = "returned"
            /\ UNCHANGED stack
    /\ UNCHANGED <<expression, tokens, pos, ret>>

\* ------------------------------------------------------------ parse_expr
ExprCall ==
    /\ Running("parse_expr", "start")
    /\ Call("ret", "parse_add")

ExprReturn ==
    /\ Running("parse_expr", "ret")
    /\ Return(ret)

\* ------------------------------------------------------------ parse_add
AddStart ==
    /\ Running("parse_add", "start")
    /\ Call("first", "parse_mul")

\* value = parse_mul(ts)
AddFirst ==
    /\ Running("parse_add", "first")
    /\ stack' = Append(Rest, [Top EXCEPT !.pc = "loop", !.val = ret])
    /\ UNCHANGED <<expression, phase, tokens, pos, ret, outcome>>

\* tok is + or -: eat it and parse the right operand
AddOp ==
    /\ Running("parse_add", "loop")
    /\ IsOp(peek, {"+", "-"})
    /\ EatThen("OP", peek.val,
               Append(Append(Rest, [Top EXCEPT !.pc = "rhs", !.op = peek.val]),
                      Frame("parse_mul")),
               NoVal)
    /\ UNCHANGED <<expression, tokens>>

\* value = value + rhs, value = value - rhs
AddApply ==
    /\ Running("parse_add", "rhs")
    /\ stack' = Append(Rest, [Top EXCEPT !.pc = "loop",
                   !.val = IF Top.op = "+" THEN PyAdd(Top.val, ret)
                           ELSE PySub(Top.val, ret)])
    /\ UNCHANGED <<expression, phase, tokens, pos, ret, outcome>>

AddReturn ==
    /\ Running("parse_add", "loop")
    /\ ~IsOp(peek, {"+", "-"})
    /\ Return(Top.val)

\* ------------------------------------------------------------ parse_mul
MulOps == {"*", "/", "//", "%"}

\* _apply_mul_op with the integer-only check made before the zero check
ApplyMulOpTypeCheckFirst(op, a, b) ==
    IF op \in {"//", "%"} /\ ~(IsInt(a) /\ IsInt(b))
    THEN [ok |-> FALSE, exc |-> "EvalError",
          msg |-> IF op = "//" THEN "// only for integers" ELSE "% only for integers"]
    ELSE IF op \in {"/", "//", "%"} /\ IsZero(b)
    THEN [ok |-> FALSE, exc |-> "EvalError", msg |-> "division by zero"]
    ELSE IF op = "*" THEN [ok |-> TRUE, val |-> PyMul(a, b)]
    ELSE IF op = "/" THEN [ok |-> TRUE, val |-> PyTrueDiv(a, b)]
    ELSE IF op = "//" THEN [ok |-> TRUE, val |-> IntVal(PyFloorDiv(a.n, b.n))]
    ELSE IF op = "%" THEN [ok |-> TRUE, val |-> IntVal(PyMod(a.n, b.n))]
    ELSE [ok |-> FALSE, exc |-> "ParseError", msg |-> "unknown operator"]

\* _apply_mul_op(op, a, b)
_apply_mul_op(op, a, b) ==
    IF op \in {"/", "//", "%"} /\ IsZero(b)
    THEN [ok |-> FALSE, exc |-> "EvalError", msg |-> "division by zero"]
    ELSE IF op = "*" THEN [ok |-> TRUE, val |-> PyMul(a, b)]
    ELSE IF op = "/" THEN [ok |-> TRUE, val |-> PyTrueDiv(a, b)]
    ELSE IF op = "//"
    THEN IF ~(IsInt(a) /\ IsInt(b))
         THEN [ok |-> FALSE, exc |-> "EvalError", msg |-> "// only for integers"]
         ELSE [ok |-> TRUE, val |-> IntVal(PyFloorDiv(a.n, b.n))]
    ELSE IF op = "%"
    THEN IF ~(IsInt(a) /\ IsInt(b))
         THEN [ok |-> FALSE, exc |-> "EvalError", msg |-> "% only for integers"]
         ELSE [ok |-> TRUE, val |-> IntVal(PyMod(a.n, b.n))]
    ELSE [ok |-> FALSE, exc |-> "ParseError", msg |-> "unknown operator"]

MulStart ==
    /\ Running("parse_mul", "start")
    /\ Call("first", "parse_pow")

\* value = parse_pow(ts)
MulFirst ==
    /\ Running("parse_mul", "first")
    /\ stack' = Append(Rest, [Top EXCEPT !.pc = "loop", !.val = ret])
    /\ UNCHANGED <<expression, phase, tokens, pos, ret, outcome>>

MulOp ==
    /\ Running("parse_mul", "loop")
    /\ IsOp(peek, MulOps)
    /\ EatThen("OP", peek.val,
               Append(Append(Rest, [Top EXCEPT !.pc = "rhs", !.op = peek.val]),
                      Frame("parse_pow")),
               NoVal)
    /\ UNCHANGED <<expression, tokens>>

\* value = _apply_mul_op(op, value, rhs)
MulApply ==
    /\ Running("parse_mul", "rhs")
    /\ LET r == _apply_mul_op(Top.op, Top.val, ret) IN
       IF r.ok
       THEN /\ stack' = Append(Rest, [Top EXCEPT !.pc = "loop", !.val = r.val])
            /\ UNCHANGED <<phase, outcome>>
       ELSE Raise(r.exc, r.msg)
    /\ UNCHANGED <<expression, tokens, pos, ret>>

MulReturn ==
    /\ Running("parse_mul", "loop")
    /\ ~IsOp(peek, MulOps)
    /\ Return(Top.val)

\* ------------------------------------------------------------ parse_pow
PowStart ==
    /\ Running("parse_pow", "start")
    /\ Call("left", "parse_unary")

\* PowOp with the right operand parsed by parse_unary, not parse_pow
PowOpUnaryRight ==
    /\ Running("parse_pow", "left")
    /\ IsOp(peek, {"**"})
    /\ EatThen("OP", "**",
               Append(Append(Rest, [Top EXCEPT !.pc = "right", !.val = ret]),
                      Frame("parse_unary")),
               NoVal)
    /\ UNCHANGED <<expression, tokens>>

\* left = parse_unary(ts); tok is **: eat it and parse the right operand
PowOp ==
    /\ Running("parse_pow", "left")
    /\ IsOp(peek, {"**"})
    /\ EatThen("OP", "**",
               Append(Append(Rest, [Top EXCEPT !.pc = "right", !.val = ret]),
                      Frame("parse_pow")),
               NoVal)
    /\ UNCHANGED <<expression, tokens>>

\* return left
PowReturn ==
    /\ Running("parse_pow", "left")
    /\ ~IsOp(peek, {"**"})
    /\ Return(ret)

\* return left ** right
PowApply ==
    /\ Running("parse_pow", "right")
    /\ LET r == PyPow(Top.val, ret) IN
       IF r.ok
       THEN /\ stack' = Rest
            /\ ret' = r.val
            /\ UNCHANGED <<phase, outcome>>
       ELSE /\ Raise(r.exc, "zero to a negative power")
            /\ UNCHANGED ret
    /\ UNCHANGED <<expression, tokens, pos>>

\* ------------------------------------------------------------ parse_unary
UnarySign ==
    /\ Running("parse_unary", "start")
    /\ IsOp(peek, {"+", "-"})
    /\ EatThen("OP", peek.val,
               Append(Append(Rest, [Top EXCEPT !.pc = "operand", !.op = peek.val]),
                      Frame("parse_unary")),
               NoVal)
    /\ UNCHANGED <<expression, tokens>>

\* UnaryApply returning the operand as it is, the sign dropped
UnaryApplySignDropped ==
    /\ Running("parse_unary", "operand")
    /\ Return(ret)

\* return +parse_unary(ts), return -parse_unary(ts)
UnaryApply ==
    /\ Running("parse_unary", "operand")
    /\ Return(IF Top.op = "-" THEN PyNeg(ret) ELSE PyPos(ret))

UnaryPrimary ==
    /\ Running("parse_unary", "start")
    /\ ~IsOp(peek, {"+", "-"})
    /\ Call("primary", "parse_primary")

\* return parse_primary(ts)
UnaryReturn ==
    /\ Running("parse_unary", "primary")
    /\ Return(ret)

\* ------------------------------------------------------------ parse_primary
PrimaryNum ==
    /\ Running("parse_primary", "start")
    /\ peek.kind = "NUM"
    /\ EatThen("NUM", "None", Rest, peek.val)
    /\ UNCHANGED <<expression, tokens>>

PrimaryLParen ==
    /\ Running("parse_primary", "start")
    /\ peek.kind = "LPAREN"
    /\ EatThen("LPAREN", "(",
               Append(Append(Rest, [Top EXCEPT !.pc = "inner"]), Frame("parse_expr")),
               NoVal)
    /\ UNCHANGED <<expression, tokens>>

\* PrimaryRParen returning the value when ")" is missing, too
PrimaryRParenOptional ==
    /\ Running("parse_primary", "inner")
    /\ IF peek.kind = "RPAREN"
       THEN EatThen("RPAREN", ")", Rest, ret)
       ELSE /\ stack' = Rest
            /\ UNCHANGED <<pos, ret, phase, outcome>>
    /\ UNCHANGED <<expression, tokens>>

\* val = parse_expr(ts); ts.eat('RPAREN', ')'); return val
PrimaryRParen ==
    /\ Running("parse_primary", "inner")
    /\ EatThen("RPAREN", ")", Rest, ret)
    /\ UNCHANGED <<expression, tokens>>

\* raise ParseError: a number or '(' was expected
PrimaryFail ==
    /\ Running("parse_primary", "start")
    /\ peek.kind \notin {"NUM", "LPAREN"}
    /\ Raise("ParseError", "expected number or (")
    /\ UNCHANGED <<expression, tokens, pos, ret>>

Next ==
    \/ CalcTokenize
    \/ CalcFinish
    \/ ExprCall
    \/ ExprReturn
    \/ AddStart
    \/ AddFirst
    \/ AddOp
    \/ AddApply
    \/ AddReturn
    \/ MulStart
    \/ MulFirst
    \/ MulOp
    \/ MulApply
    \/ MulReturn
    \/ PowStart
    \/ PowOp
    \/ PowReturn
    \/ PowApply
    \/ UnarySign
    \/ UnaryApply
    \/ UnaryPrimary
    \/ UnaryReturn
    \/ PrimaryNum
    \/ PrimaryLParen
    \/ PrimaryRParen
    \/ PrimaryFail

\* ------------------------------------------------------------ inputs
Chr(s) == <<s>>

\* the lexemes of s, joined by single spaces
RECURSIVE Join(_)
Join(s) ==
    IF s = <<>> THEN <<>>
    ELSE IF Len(s) = 1 THEN s[1]
    ELSE s[1] \o <<" ">> \o Join(Tail(s))

SeqsUpTo(S, n) == UNION {[1..m -> S] : m \in 0..n}

Lexemes ==
    {<<"0">>, <<"2">>, <<"2", ".", "0">>, <<"-">>, <<"/">>,
     <<"/", "/">>, <<"*", "*">>, <<"(">>, <<")">>}

\* the decimal digits of n
RECURSIVE Str(_)
Str(n) == IF n < 10 THEN <<Digits[n + 1]>> ELSE Str(n \div 10) \o <<Digits[(n % 10) + 1]>>

AllOps == {<<"+">>, <<"-">>, <<"*">>, <<"/">>, <<"/", "/">>, <<"%">>, <<"*", "*">>}

Chars == {"1", ".", "+", "*", "/", "(", ")", " ", "x"}

BinLits == {Str(n) : n \in 0..MaxInt} \cup {<<"0", ".", "0">>, <<"0", ".", "5">>, <<"2", ".", "0">>}

\* an operand: a literal, a negated literal, a literal in parentheses, or none
Operands ==
    {<<l>> : l \in BinLits} \cup {<<Chr("-"), l>> : l \in BinLits}
        \cup {<<Chr("("), l, Chr(")")>> : l \in BinLits} \cup {<<>>}

BinInputs == {Join(x \o <<op>> \o y) : x \in Operands, y \in Operands, op \in AllOps}

ChainLits == {<<"0">>, <<"1">>, <<"2">>, <<"2", ".", "0">>}

ChainInputs ==
    {Join(<<a, p, b, q, c>>) : a \in ChainLits, b \in ChainLits, c \in ChainLits,
                               p \in AllOps, q \in AllOps}
    \cup {Join(<<Chr("("), a, p, b, Chr(")"), q, c>>) :
             a \in ChainLits, b \in ChainLits, c \in ChainLits, p \in AllOps, q \in AllOps}
    \cup {Join(<<a, p, Chr("("), b, q, c, Chr(")")>>) :
             a \in ChainLits, b \in ChainLits, c \in ChainLits, p \in AllOps, q \in AllOps}
    \cup {Join(<<Chr("-"), a, p, b>>) : a \in ChainLits, b \in ChainLits, p \in AllOps}
    \cup {Join(<<a, p, b, q>>) : a \in ChainLits, b \in ChainLits, p \in AllOps, q \in AllOps}

InitWith(e) ==
    /\ expression = e
    /\ phase = "start"
    /\ tokens = <<>>
    /\ pos = 0
    /\ stack = <<>>
    /\ ret = NoVal
    /\ outcome = NoOutcome

\* expressions of up to MaxToks lexemes
Init == \E s \in SeqsUpTo(Lexemes, MaxToks) : InitWith(Join(s))

Spec == Init /\ [][Next]_vars

\* expressions of up to MaxLen characters
InitLex == \E e \in SeqsUpTo(Chars, MaxLen) : InitWith(e)

SpecLex == InitLex /\ [][Next]_vars

\* one binary operator between two operands
InitBin == \E e \in BinInputs : InitWith(e)

SpecBin == InitBin /\ [][Next]_vars

\* two binary operators in a row, plain or grouped by parentheses
InitChain == \E e \in ChainInputs : InitWith(e)

SpecChain == InitChain /\ [][Next]_vars

\* ------------------------------------------------------------ properties
Done == phase \in {"returned", "raised"}

\* the tokens before EOF
Body == SubSeq(tokens, 1, Len(tokens) - 1)

\* the tokens eaten so far
Consumed == SubSeq(tokens, 1, pos)

IsNum(tok) == tok.kind = "NUM"

\* tokens is exactly the sequence of the given token kinds (OP tokens by symbol set)
AddLevel == {"+", "-"}

MulLevel == {"*", "/", "//", "%"}

PowLevel == {"**"}

BinOps == AddLevel \cup MulLevel \cup PowLevel

\* The result of one binary operator on two values, as Python computes it.
BinOp(op, a, b) ==
    IF op = "+" THEN [ok |-> TRUE, val |-> PyAdd(a, b)]
    ELSE IF op = "-" THEN [ok |-> TRUE, val |-> PySub(a, b)]
    ELSE IF op = "**" THEN PyPow(a, b)
    ELSE _apply_mul_op(op, a, b)

\* op2 applied to the result of op1 (left grouping): (a op1 b) op2 c
GroupLeft(op1, op2, a, b, c) ==
    LET r == BinOp(op1, a, b) IN IF r.ok THEN BinOp(op2, r.val, c) ELSE r

\* op1 applied to the result of op2 (right grouping): a op1 (b op2 c)
GroupRight(op1, op2, a, b, c) ==
    LET r == BinOp(op2, b, c) IN IF r.ok THEN BinOp(op1, a, r.val) ELSE r

\* calculate_expression ended as the evaluation r did
EndedAs(r) ==
    IF r.ok THEN outcome.kind = "value" /\ outcome.val = r.val
    ELSE outcome.kind = r.exc

\* C1: every call returns an int or a float, or fails with ParseError or
\* EvalError; no other exception leaves calculate_expression.
C1_OnlyParseOrEvalError ==
    /\ outcome.kind \in {"none", "value", "ParseError", "EvalError"}
    /\ outcome.kind = "value" => outcome.val.k \in {"int", "float"}

\* C2: for /, // and %, a zero right operand raises EvalError "division by
\* zero" whatever the left operand and whatever the operand kinds: the zero
\* check comes before the integer-only check.
C2_ZeroDivisorFirst ==
    [][(Running("parse_mul", "rhs") /\ Top.op \in {"/", "//", "%"} /\ IsZero(ret))
          => (/\ phase' = "raised"
              /\ outcome'.kind = "EvalError"
              /\ outcome'.msg = "division by zero")]_vars

\* 0.5 % 0.0 was evaluated: a float operand, a float zero divisor
C2_Witness ==
    /\ Len(tokens) = 4
    /\ IsNum(tokens[1]) /\ tokens[1].val = FloatVal(1, 2)
    /\ IsOp(tokens[2], {"%"})
    /\ IsNum(tokens[3]) /\ tokens[3].val = FloatVal(0, 1)
    /\ outcome.kind = "EvalError"
    /\ outcome.msg = "division by zero"

\* q is a / b rounded toward negative infinity
IsFloorQuotient(q, a, b) ==
    IF b > 0 THEN q * b <= a /\ a < (q + 1) * b
    ELSE q * b >= a /\ a > (q + 1) * b

\* C6: for // and % with a non-zero right operand, a float operand raises
\* EvalError ("only for integers"); two ints give an int: a // b is the
\* quotient rounded toward negative infinity, a % b has the sign of b, and
\* (a // b) * b + (a % b) = a.
C6_FloorDivMod ==
    [][(Running("parse_mul", "rhs") /\ Top.op \in {"//", "%"} /\ ~IsZero(ret))
          => IF ~(IsInt(Top.val) /\ IsInt(ret))
             THEN /\ phase' = "raised"
                  /\ outcome'.kind = "EvalError"
                  /\ outcome'.msg = (IF Top.op = "//" THEN "// only for integers"
                                     ELSE "% only for integers")
             ELSE LET a == Top.val.n
                      b == ret.n
                      r == stack'[Len(stack')].val
                  IN  /\ phase' = "parse"
                      /\ IsInt(r) /\ r.d = 1
                      /\ Top.op = "//" => IsFloorQuotient(r.n, a, b)
                      /\ Top.op = "%" =>
                            /\ b > 0 => (0 <= r.n /\ r.n < b)
                            /\ b < 0 => (b < r.n /\ r.n <= 0)
                            /\ \E q \in (-Abs(a) - 1)..(Abs(a) + 1) :
                                  IsFloorQuotient(q, a, b) /\ q * b + r.n = a]_vars

\* -3 // 2 was evaluated and gave -2 (rounding toward zero would give -1)
C6_Witness ==
    /\ Len(tokens) = 5
    /\ IsOp(tokens[1], {"-"})
    /\ IsNum(tokens[2]) /\ tokens[2].val = IntVal(3)
    /\ IsOp(tokens[3], {"//"})
    /\ IsNum(tokens[4]) /\ tokens[4].val = IntVal(2)
    /\ outcome.kind = "value"
    /\ outcome.val = IntVal(-2)

IsReal(v) == v.k \in {"int", "float"}

\* the kind * gives two operands: int for two ints, float otherwise
MulKind(a, b) == IF IsInt(a) /\ IsInt(b) THEN "int" ELSE "float"

IsChain ==
    /\ Len(tokens) = 6
    /\ IsNum(tokens[1]) /\ tokens[2].kind = "OP" /\ IsNum(tokens[3])
    /\ tokens[4].kind = "OP" /\ IsNum(tokens[5])

\* tokens is  - NUM OP NUM EOF
IsNegatedLeft ==
    /\ Len(tokens) = 5
    /\ IsOp(tokens[1], {"-"})
    /\ IsNum(tokens[2]) /\ tokens[3].kind = "OP" /\ IsNum(tokens[4])

Level(op) == IF op \in AddLevel THEN 1 ELSE IF op \in MulLevel THEN 2 ELSE 3

\* -(a ** b)
NegatedPow(a, b) ==
    LET r == PyPow(a, b) IN IF r.ok THEN [ok |-> TRUE, val |-> PyNeg(r.val)] ELSE r

\* C3 as stated: ** binds tighter than a unary sign, so -a ** b is -(a ** b).
C3_PowAboveUnary ==
    (Done /\ IsNegatedLeft /\ IsOp(tokens[3], {"**"}))
        => EndedAs(NegatedPow(tokens[2].val, tokens[4].val))

\* C3 amended: a unary sign binds tighter than every binary operator, ** too:
\* -a op b is (-a) op b, so -a ** b is (-a) ** b; ** binds tighter than
\* * / // %, and those bind tighter than binary + and -.
C3_UnaryAbovePow ==
    /\ (Done /\ IsNegatedLeft)
          => EndedAs(BinOp(tokens[3].val, PyNeg(tokens[2].val), tokens[4].val))
    /\ (Done /\ IsChain /\ Level(tokens[2].val) < Level(tokens[4].val))
          => EndedAs(GroupRight(tokens[2].val, tokens[4].val,
                                tokens[1].val, tokens[3].val, tokens[5].val))
    /\ (Done /\ IsChain /\ Level(tokens[2].val) > Level(tokens[4].val))
          => EndedAs(GroupLeft(tokens[2].val, tokens[4].val,
                               tokens[1].val, tokens[3].val, tokens[5].val))

\* -2 ** 2 was evaluated and gave 4
C3_Witness ==
    /\ IsNegatedLeft
    /\ tokens[2].val = IntVal(2)
    /\ IsOp(tokens[3], {"**"})
    /\ tokens[4].val = IntVal(2)
    /\ outcome.kind = "value"
    /\ outcome.val = IntVal(4)

\* C7: a ** b ** c is a ** (b ** c); a op1 b op2 c with op1 and op2 both in
\* {+, -} or both in {*, /, //, %} is (a op1 b) op2 c.
C7_Associativity ==
    /\ (Done /\ IsChain /\ IsOp(tokens[2], PowLevel) /\ IsOp(tokens[4], PowLevel))
          => EndedAs(GroupRight("**", "**", tokens[1].val, tokens[3].val, tokens[5].val))
    /\ (Done /\ IsChain
             /\ \/ IsOp(tokens[2], AddLevel) /\ IsOp(tokens[4], AddLevel)
                \/ IsOp(tokens[2], MulLevel) /\ IsOp(tokens[4], MulLevel))
          => EndedAs(GroupLeft(tokens[2].val, tokens[4].val,
                               tokens[1].val, tokens[3].val, tokens[5].val))

\* 2 ** 1 ** 2 was evaluated and gave 2 (grouping from the left would give 4)
C7_Witness ==
    /\ IsChain
    /\ tokens[1].val = IntVal(2) /\ IsOp(tokens[2], {"**"})
    /\ tokens[3].val = IntVal(1) /\ IsOp(tokens[4], {"**"})
    /\ tokens[5].val = IntVal(2)
    /\ outcome.kind = "value"
    /\ outcome.val = IntVal(2)

\* The grammar expr/add/mul/pow/unary/primary, stated on neighbouring tokens:
\* an operand (a number or a parenthesis group) starts the sequence and
\* follows "(" and every operator, possibly after signs; a binary operator or
\* ")" follows a number and ")"; the parentheses are balanced.
StartsOperand(tok) == tok.kind \in {"NUM", "LPAREN"} \/ IsOp(tok, {"+", "-"})

EndsOperand(tok) == tok.kind \in {"NUM", "RPAREN"}

Count(toks, kind, upto) == Cardinality({i \in 1..upto : toks[i].kind = kind})

IsSentence(toks) ==
    /\ toks # <<>>
    /\ StartsOperand(toks[1])
    /\ EndsOperand(toks[Len(toks)])
    /\ \A i \in 1..(Len(toks) - 1) :
          IF EndsOperand(toks[i])
          THEN toks[i + 1].kind \in {"OP", "RPAREN"}
          ELSE StartsOperand(toks[i + 1])
    /\ \A i \in 1..Len(toks) : Count(toks, "RPAREN", i) <= Count(toks, "LPAREN", i)
    /\ Count(toks, "RPAREN", Len(toks)) = Count(toks, "LPAREN", Len(toks))

RParens(k) == [i \in 1..k |-> RParenTok]

\* toks is a sentence once its open parentheses are closed
IsClosable(toks) == \E k \in 0..Len(toks) : IsSentence(toks \o RParens(k))

\* C5 as stated: EvalError is raised only for a complete sentence of the
\* grammar; a structurally invalid input fails with ParseError instead.
C5_EvalErrorOnlyIfValid ==
    outcome.kind = "EvalError" => (tokens # <<>> /\ IsSentence(Body))

\* C5 amended: when EvalError is raised the tokens eaten so far are the start
\* of a valid expression (a sentence once its open parentheses are closed),
\* whatever follows them; a value is returned only for a complete sentence, and
\* ParseError is raised only for an input that is not one.
C5_EvalErrorOnValidPrefix ==
    /\ outcome.kind = "EvalError" => (tokens # <<>> /\ IsClosable(Consumed))
    /\ outcome.kind = "value" => (tokens # <<>> /\ IsSentence(Body))
    /\ outcome.kind = "ParseError" => (tokens = <<>> \/ ~IsSentence(Body))

\* 2 / 0 ) raised EvalError: the division was evaluated before the stray ")"
C5_Witness ==
    /\ Len(tokens) = 5
    /\ IsNum(tokens[1]) /\ IsOp(tokens[2], {"/"})
    /\ IsNum(tokens[3]) /\ tokens[3].val = IntVal(0)
    /\ tokens[4].kind = "RPAREN"
    /\ outcome.kind = "EvalError"
    /\ pos = 3

\* C8: a value is returned only with the cursor on EOF, every token before it
\* eaten; when parse_expr returns with another token left, the call fails with
\* ParseError ("trailing characters") and returns nothing.
C8_AllConsumedOrTrailing ==
    /\ [](outcome.kind = "value"
            => (phase = "returned" /\ peek = EOFTok /\ pos = Len(tokens) - 1))
    /\ [][(phase = "parse" /\ stack = <<>> /\ peek.kind # "EOF")
            => (/\ phase' = "raised"
                /\ outcome' = [kind |-> "ParseError", msg |-> "trailing characters",
                               val |-> NoVal])]_vars

\* 2 ) failed with the trailing-characters error
C8_Witness ==
    /\ Len(tokens) = 3
    /\ IsNum(tokens[1]) /\ tokens[2].kind = "RPAREN"
    /\ outcome.kind = "ParseError"
    /\ outcome.msg = "trailing characters"

\* the steps that eat a token
EatingStep ==
    \/ AddOp \/ MulOp \/ PowOp \/ UnarySign
    \/ PrimaryNum \/ PrimaryLParen \/ PrimaryRParen

\* C10: 0 <= pos <= len(tokens); pos changes only by a successful eat, by
\* exactly one; a peek leaves it alone; an eat that does not match raises
\* ParseError and leaves pos alone; the token list is never modified.
C10_CursorFrame ==
    /\ [](0 <= pos /\ pos <= Len(tokens))
    /\ [][pos' # pos
            => (/\ pos' = pos + 1
                /\ EatingStep
                /\ peek.kind # "EOF"
                /\ phase' = "parse")]_vars
    /\ [][(Running("parse_primary", "inner") /\ peek.kind # "RPAREN")
            => (pos' = pos /\ phase' = "raised" /\ outcome'.kind = "ParseError")]_vars
    /\ [][phase # "start" => tokens' = tokens]_vars

\* ( 2 without ")": the eat of ')' failed after two tokens were eaten
C10_Witness ==
    /\ outcome.kind = "ParseError"
    /\ outcome.msg = "expected token kind"
    /\ pos = 2

\* the characters tokenize accepts outside a number
IsValidChar(ch) == IsSpace(ch) \/ IsDigit(ch) \/ ch \in {"(", ")", "*", "/", "+", "-", "%"}

\* Every "." of e stands between two digits, and no other "." is in the same
\* run of digits and points: every number is digits or digits.digits.
IsWellFormed(e) ==
    \A i \in 1..Len(e) :
        /\ IsValidChar(e[i]) \/ e[i] = "."
        /\ e[i] = "." =>
              /\ i > 1 /\ IsDigit(e[i - 1])
              /\ i < Len(e) /\ IsDigit(e[i + 1])
              /\ \A j \in 1..(i - 1) :
                    e[j] = "." => \E m \in (j + 1)..(i - 1) : ~IsDigit(e[m])

\* C9: tokenize accepts a number only as digits or digits.digits: a digit run
\* followed by "." without a digit after it fails with ParseError (a digit was
\* expected), a "." where no number is being scanned fails as an invalid
\* character; a successful tokenize ends with the one EOF token.
C9_NumberForms ==
    phase # "start" =>
        LET r == tokenize(expression) IN
        /\ (tokens # <<>>) = IsWellFormed(expression)
        /\ tokens # <<>> =>
              /\ tokens = r.tokens
              /\ tokens[Len(tokens)] = EOFTok
              /\ \A i \in 1..(Len(tokens) - 1) : tokens[i].kind # "EOF"
        /\ tokens = <<>> =>
              /\ outcome.kind = "ParseError"
              /\ outcome.msg = r.msg
              /\ r.msg = "digit expected after point" =>
                    /\ CharAt(expression, r.at) = "."
                    /\ r.at > 0 /\ IsDigit(CharAt(expression, r.at - 1))
                    /\ r.at + 1 >= Len(expression)
                          \/ ~IsDigit(CharAt(expression, r.at + 1))
              /\ r.msg = "invalid character" => ~IsValidChar(CharAt(expression, r.at))
              /\ r.msg \in {"digit expected after point", "invalid character"}

\* 11.+ failed: a digit was expected after the point
C9_Witness ==
    /\ expression = <<"1", "1", ".", "+">>
    /\ outcome.kind = "ParseError"
    /\ outcome.msg = "digit expected after point"

====
